---- MODULE Spec2Model ----
(***************************************************************************)
(* The transaction service of a node server                               *)
(* (network/src/transactions/transactions.rs): the handlers               *)
(* update, received_transaction, received_get_memory_pool,                 *)
(* received_memory_pool and propagate_transaction, run as tasks over the   *)
(* shared memory pool (behind a mutex), the ledger storage and the         *)
(* outbound handler.                                                       *)
(***************************************************************************)
EXTENDS Integers, Sequences, FiniteSets, Bags, TLC

\* ------------------------------------------------------------------ bounds
NumAddr == 3        \* socket addresses 1..NumAddr
MaxBalance == 1     \* transactions carry a value balance in -1..MaxBalance
MaxBatch == 2       \* longest Vec<Vec<u8>> handed to received_memory_pool
NumTasks == 2       \* handler calls in flight at once in ConcurrentSpec

None == "None"
Err == "Err"
NotYet == "NotYet"  \* a call that has not got that far

Addr == 1..NumAddr
Tasks == 1..NumTasks

\* ------------------------------------------------------------ transactions
\* A decoded Tx; its value balance is all of it the handlers read.
Tx == [value_balance : -1..MaxBalance]

\* The transaction id is a hash of the contents of the transaction.
TransactionId(tx) == tx.value_balance

TxId == {TransactionId(tx) : tx \in Tx}

\* to_bytes![tx]: one byte, the value balance shifted to be unsigned.
ToBytes(tx) == <<tx.value_balance + 1>>

\* Tx::read(&bytes[..]): reads the leading byte and leaves the rest of the
\* slice unread; fails on an empty slice or on a byte that is no balance.
ReadOk(bytes) == Len(bytes) >= 1 /\ bytes[1] \in 0..(MaxBalance + 1)

\* The Tx that Tx::read returns where it returns Ok.
Read(bytes) == [value_balance |-> bytes[1] - 1]

\* The Vec<u8> a peer may put on the wire.
RawTransactions ==
    {<<>>} \cup {<<b>> : b \in 0..(MaxBalance + 2)}

RECURSIVE SeqsUpTo(_, _)
SeqsUpTo(S, n) ==
    IF n = 0 THEN {<<>>}
    ELSE LET shorter == SeqsUpTo(S, n - 1)
         IN shorter \cup {Append(s, x) : s \in {q \in shorter : Len(q) = n - 1}, x \in S}

Batches == SeqsUpTo(RawTransactions, MaxBatch)

\* Entry::<Tx> { size_in_bytes, transaction }
Entry(bytes, tx) == [size_in_bytes |-> Len(bytes), transaction |-> tx]

\* --------------------------------------------------------------- messages
Transaction(bytes) == [type |-> "Transaction", bytes |-> bytes, txs |-> EmptyBag]
MemoryPool(txs) == [type |-> "MemoryPool", bytes |-> <<>>, txs |-> txs]
GetMemoryPool == [type |-> "GetMemoryPool", bytes |-> <<>>, txs |-> EmptyBag]
Message(remote_address, payload) == [dst |-> remote_address, payload |-> payload]

\* ------------------------------------------------------------------ state
VARIABLES
    memory_pool,    \* memory_pool.transactions: transaction id -> Entry
    mutex,          \* the tasks holding memory_pool().lock(): none or one
    ledger,         \* storage: the transaction ids the ledger has made invalid
    local_address,  \* environment.local_address(): {} is None, {a} is Some(a)
    frame,          \* per task: the handler call it runs, arguments and locals
    is_bootnode,    \* environment.is_bootnode()
    peer_pool,      \* the memory pool of the peer this node syncs with
    network,        \* the messages taken by an outbound handler, in flight
    rwlock          \* the RwLock of storage: the tasks holding a read guard,
                    \* and where a writer of another component stands

vars == <<memory_pool, mutex, ledger, local_address, frame, is_bootnode,
          peer_pool, network, rwlock>>

Idle ==
    [handler |-> None, pc |-> "idle", result |-> None,
     sync_node |-> {},
     source |-> 0, transaction |-> <<>>, connected_peers |-> {},
     verified |-> NotYet, insertion |-> NotYet,
     remote_address |-> 0, skipped |-> {}, txs |-> EmptyBag,
     transactions |-> <<>>, next |-> 0, pool0 |-> <<>>, lost |-> {}, removed |-> {},
     ops |-> <<>>, failures |-> {}, locks |-> <<>>, sent |-> EmptyBag]

Init ==
    /\ memory_pool = <<>>
    /\ mutex = {}
    /\ ledger = {}
    /\ local_address = {}
    /\ frame = [t \in Tasks |-> Idle]
    /\ is_bootnode \in BOOLEAN
    /\ peer_pool = <<>>
    /\ network = {}
    /\ rwlock = [readers |-> {}, writer |-> "none"]

\* Task t runs no call: a handler can be called on it.
Free(t) == frame[t].pc = "idle"

\* --------------------------------------------------------- collaborators
\* consensus.verify_transaction(parameters, &tx, &storage) where it returns
\* Ok(bool).
VerifyTransaction(tx, storage) == TransactionId(tx) \notin storage

\* What verify_transaction may return: Ok(true), Ok(false) or an error.
VerifyOutcomes(tx, storage) ==
    {IF VerifyTransaction(tx, storage) THEN "true" ELSE "false", Err}

\* MemoryPool::insert(&storage, entry) when it does not fail: <<pool, Option>>.
Insert(pool, entry) ==
    LET id == TransactionId(entry.transaction)
    IN IF id \in DOMAIN pool
       THEN <<pool, None>>
       ELSE <<(id :> entry) @@ pool, "Some">>

\* MemoryPool::cleanse(&storage) when it does not fail.
Cleanse(pool, storage) ==
    [id \in {k \in DOMAIN pool : VerifyTransaction(pool[k].transaction, storage)}
        |-> pool[id]]

\* ------------------------------------------------------------------ update
\* UpdateRequest that does not look at the role of the node.
UpdateRequestOnBootnode(bootnode, sync_node) ==
    SetToBag({Message(address, GetMemoryPool) : address \in sync_node})

\* Lines 49-59: what update sends; sync_node is {} for None, {a} for Some(a).
UpdateRequest(bootnode, sync_node) ==
    IF ~bootnode
    THEN SetToBag({Message(address, GetMemoryPool) : address \in sync_node})
    ELSE EmptyBag

\* Lines 48-61: update(sync_node), which takes no lock and returns Ok(()).
Update(t, sync_node) ==
    /\ Free(t)
    /\ frame' = [frame EXCEPT ![t] =
          [Idle EXCEPT !.handler = "update",
                       !.pc = "done",
                       !.result = "Ok",
                       !.sync_node = sync_node,
                       !.sent = UpdateRequest(is_bootnode, sync_node)]]
    /\ UNCHANGED <<memory_pool, mutex, ledger, local_address, is_bootnode, peer_pool, network, rwlock>>

\* ------------------------------------------------- propagate_transaction
\* Destinations without the comparison with the local address.
DestinationsEchoLocal(connected_peers, transaction_sender, local) ==
    {remote_address \in connected_peers : remote_address # transaction_sender}

\* The addresses the loop of propagate_transaction sends to.
Destinations(connected_peers, transaction_sender, local) ==
    {remote_address \in connected_peers :
        remote_address # transaction_sender /\ remote_address # local}

PropagateTransaction(transaction_bytes, transaction_sender, connected_peers, local) ==
    SetToBag({Message(remote_address, Transaction(transaction_bytes)) :
                remote_address \in Destinations(connected_peers, transaction_sender, local)})

\* --------------------------------------------------- received_transaction
\* AfterVerify without the early return of lines 99-102 on Ok(false).
AfterVerifyIgnoreVerdict(call, tx, verdict) ==
    IF verdict = Err
    THEN [call EXCEPT !.pc = "done", !.result = Err, !.verified = verdict]
    ELSE IF tx.value_balance < 0
    THEN [call EXCEPT !.pc = "done", !.result = "Ok", !.verified = verdict]
    ELSE [call EXCEPT !.pc = "insert", !.verified = verdict]

\* AfterVerify without the early return of lines 104-107 on a coinbase.
AfterVerifyNoCoinbaseCheck(call, tx, verdict) ==
    IF verdict = Err
    THEN [call EXCEPT !.pc = "done", !.result = Err, !.verified = verdict]
    ELSE IF verdict = "false"
    THEN [call EXCEPT !.pc = "done", !.result = "Ok", !.verified = verdict]
    ELSE [call EXCEPT !.pc = "insert", !.verified = verdict]

\* Lines 99-112: where the call stands once verify_transaction has answered
\* `verdict` for the decoded tx: an error is returned (?), an invalid
\* transaction and a coinbase transaction return Ok(()), anything else goes on
\* to the insert.
AfterVerify(call, tx, verdict) ==
    IF verdict = Err
    THEN [call EXCEPT !.pc = "done", !.result = Err, !.verified = verdict]
    ELSE IF verdict = "false"
    THEN [call EXCEPT !.pc = "done", !.result = "Ok", !.verified = verdict]
    ELSE IF tx.value_balance < 0
    THEN [call EXCEPT !.pc = "done", !.result = "Ok", !.verified = verdict]
    ELSE [call EXCEPT !.pc = "insert", !.verified = verdict]

\* ReceivedTransactionVerify with Tx::read(..)? in the place of the
\* `if let Ok(tx)` of line 94: bytes that do not decode return the error.
ReceivedTransactionVerifyOrFail(t, source, transaction, connected_peers) ==
    /\ Free(t)
    /\ LET call == [Idle EXCEPT !.handler = "received_transaction",
                                !.source = source,
                                !.transaction = transaction,
                                !.connected_peers = connected_peers]
       IN IF ~ReadOk(transaction)
          THEN frame' = [frame EXCEPT ![t] =
                    [call EXCEPT !.pc = "done", !.result = Err]]
          ELSE \E verdict \in VerifyOutcomes(Read(transaction), ledger) :
                 frame' = [frame EXCEPT ![t] =
                    AfterVerify(call, Read(transaction), verdict)]
    /\ UNCHANGED <<memory_pool, mutex, ledger, local_address, is_bootnode, peer_pool, network, rwlock>>

\* Lines 94-112: decode, verify against storage.read(), refuse a coinbase.
ReceivedTransactionVerify(t, source, transaction, connected_peers) ==
    /\ Free(t)
    /\ LET call == [Idle EXCEPT !.handler = "received_transaction",
                                !.source = source,
                                !.transaction = transaction,
                                !.connected_peers = connected_peers]
       IN IF ~ReadOk(transaction)
          THEN frame' = [frame EXCEPT ![t] =
                    [call EXCEPT !.pc = "done", !.result = "Ok"]]
          ELSE \E verdict \in VerifyOutcomes(Read(transaction), ledger) :
                 frame' = [frame EXCEPT ![t] =
                    AfterVerify(call, Read(transaction), verdict)]
    /\ UNCHANGED <<memory_pool, mutex, ledger, local_address, is_bootnode, peer_pool, network, rwlock>>

\* ShouldPropagate on any Ok(_), a duplicate included.
ShouldPropagateAnyOk(inserted) == inserted # Err

\* Lines 116-117: propagate when the insert returned Ok(Some(_)).
ShouldPropagate(inserted) == inserted = "Some"

\* ReceivedTransactionInsert with try_lock() in the place of lock(): the
\* insert is given up, as if answered Ok(None), while another call stands at
\* its own insert.
ReceivedTransactionInsertTryLock(t) ==
    /\ frame[t].handler = "received_transaction"
    /\ frame[t].pc = "insert"
    /\ mutex = {}
    /\ LET f == frame[t]
           entry == Entry(f.transaction, Read(f.transaction))
           contended == \E u \in Tasks \ {t} : frame[u].pc = "insert"
       IN \E failed \in BOOLEAN :
            LET insertion == IF failed THEN <<memory_pool, Err>>
                             ELSE IF contended THEN <<memory_pool, None>>
                             ELSE Insert(memory_pool, entry)
                inserted == insertion[2]
            IN /\ memory_pool' = insertion[1]
               /\ frame' = [frame EXCEPT ![t] =
                    IF ~ShouldPropagate(inserted)
                    THEN [f EXCEPT !.pc = "done", !.result = "Ok", !.insertion = inserted]
                    ELSE IF local_address = {}
                    THEN [f EXCEPT !.pc = "done", !.result = "Panic", !.insertion = inserted]
                    ELSE [f EXCEPT !.pc = "done", !.result = "Ok", !.insertion = inserted,
                                   !.sent = PropagateTransaction(
                                       f.transaction, f.source, f.connected_peers,
                                       CHOOSE a \in local_address : TRUE)]]
    /\ UNCHANGED <<mutex, ledger, local_address, is_bootnode, peer_pool, network, rwlock>>

\* Lines 114-125: insert under the pool lock, propagate a new entry.
ReceivedTransactionInsert(t) ==
    /\ frame[t].handler = "received_transaction"
    /\ frame[t].pc = "insert"
    /\ mutex = {}
    /\ LET f == frame[t]
           entry == Entry(f.transaction, Read(f.transaction))
       IN \E failed \in BOOLEAN :
            LET insertion == IF failed THEN <<memory_pool, Err>>
                             ELSE Insert(memory_pool, entry)
                inserted == insertion[2]
            IN /\ memory_pool' = insertion[1]
               /\ frame' = [frame EXCEPT ![t] =
                    IF ~ShouldPropagate(inserted)
                    THEN [f EXCEPT !.pc = "done", !.result = "Ok", !.insertion = inserted]
                    ELSE IF local_address = {}
                    THEN [f EXCEPT !.pc = "done", !.result = "Panic", !.insertion = inserted]
                    ELSE [f EXCEPT !.pc = "done", !.result = "Ok", !.insertion = inserted,
                                   !.sent = PropagateTransaction(
                                       f.transaction, f.source, f.connected_peers,
                                       CHOOSE a \in local_address : TRUE)]]
    /\ UNCHANGED <<mutex, ledger, local_address, is_bootnode, peer_pool, network, rwlock>>

\* ------------------------------------------------ received_get_memory_pool
\* The encodings the loop of lines 135-139 pushes, the entries in `skipped`
\* being those whose to_bytes! fails.
EncodeAll(pool, skipped) ==
    LET ids == DOMAIN pool \ skipped
        encodings == {ToBytes(pool[id].transaction) : id \in ids}
    IN [b \in encodings |->
          Cardinality({id \in ids : ToBytes(pool[id].transaction) = b})]

\* Lines 131-142: the snapshot under the pool lock.
ReceivedGetMemoryPoolSnapshot(t, remote_address) ==
    /\ Free(t)
    /\ mutex = {}
    /\ \E skipped \in SUBSET DOMAIN memory_pool :
         frame' = [frame EXCEPT ![t] =
            [Idle EXCEPT !.handler = "received_get_memory_pool",
                         !.pc = "send",
                         !.remote_address = remote_address,
                         !.skipped = skipped,
                         !.txs = EncodeAll(memory_pool, skipped)]]
    /\ UNCHANGED <<memory_pool, mutex, ledger, local_address, is_bootnode, peer_pool, network, rwlock>>

\* PoolResponse without the is_empty test of line 144.
PoolResponseAlways(remote_address, transactions) ==
    SetToBag({Message(remote_address, MemoryPool(transactions))})

\* Lines 144-150: what is sent for the list `transactions`.
PoolResponse(remote_address, transactions) ==
    IF transactions # EmptyBag
    THEN SetToBag({Message(remote_address, MemoryPool(transactions))})
    ELSE EmptyBag

\* Lines 144-152: one MemoryPool message unless the list is empty.
ReceivedGetMemoryPoolSend(t) ==
    /\ frame[t].handler = "received_get_memory_pool"
    /\ frame[t].pc = "send"
    /\ LET f == frame[t]
       IN frame' = [frame EXCEPT ![t] =
             [f EXCEPT !.pc = "done", !.result = "Ok",
                       !.sent = PoolResponse(f.remote_address, f.txs)]]
    /\ UNCHANGED <<memory_pool, mutex, ledger, local_address, is_bootnode, peer_pool, network, rwlock>>

\* ---------------------------------------------------- received_memory_pool
\* ReceivedMemoryPoolLock that goes on without the pool lock.
ReceivedMemoryPoolNoLock(t, transactions) ==
    /\ Free(t)
    /\ frame' = [frame EXCEPT ![t] =
          [Idle EXCEPT !.handler = "received_memory_pool",
                       !.pc = "loop",
                       !.transactions = transactions,
                       !.next = 1,
                       !.pool0 = memory_pool]]
    /\ UNCHANGED <<memory_pool, mutex, ledger, local_address, is_bootnode, peer_pool, rwlock>>

\* Line 157: take the pool lock, kept until the function returns.
ReceivedMemoryPoolLock(t, transactions) ==
    /\ Free(t)
    /\ mutex = {}
    /\ mutex' = {t}
    /\ frame' = [frame EXCEPT ![t] =
          [Idle EXCEPT !.handler = "received_memory_pool",
                       !.pc = "loop",
                       !.transactions = transactions,
                       !.next = 1,
                       !.pool0 = memory_pool]]
    /\ UNCHANGED <<memory_pool, ledger, local_address, is_bootnode, peer_pool, rwlock>>

\* BatchDone that leaves the loop one entry early.
BatchDoneEarly(f) == f.next >= Len(f.transactions)

\* Line 159: the for loop has consumed the whole batch.
BatchDone(f) == f.next > Len(f.transactions)

\* ReceivedMemoryPoolInsert that undoes the inserts of the batch when an
\* entry does not decode.
ReceivedMemoryPoolInsertOrUndo(t) ==
    /\ frame[t].handler = "received_memory_pool"
    /\ frame[t].pc = "loop"
    /\ ~BatchDone(frame[t])
    /\ LET f == frame[t]
           transaction_bytes == f.transactions[f.next]
           transaction == Read(transaction_bytes)
       IN IF ~ReadOk(transaction_bytes)
          THEN /\ frame' = [frame EXCEPT ![t] =
                    [f EXCEPT !.pc = "done", !.result = Err]]
               /\ mutex' = {}
               /\ memory_pool' = f.pool0
          ELSE \E failed \in BOOLEAN :
                 /\ memory_pool' =
                       IF failed THEN memory_pool
                       ELSE Insert(memory_pool, Entry(transaction_bytes, transaction))[1]
                 /\ frame' = [frame EXCEPT ![t] =
                       [f EXCEPT !.next = @ + 1, !.ops = Append(@, "insert"),
                                 !.failures = IF failed THEN @ \cup {"insert"} ELSE @,
                                 !.lost = IF failed
                                          THEN @ \cup {TransactionId(transaction)}
                                          ELSE @]]
                 /\ UNCHANGED mutex
    /\ UNCHANGED <<ledger, local_address, is_bootnode, peer_pool, network, rwlock>>

\* Lines 159-172, one iteration: decode (an error returns, dropping the
\* lock), insert against storage.read().
ReceivedMemoryPoolInsert(t) ==
    /\ frame[t].handler = "received_memory_pool"
    /\ frame[t].pc = "loop"
    /\ ~BatchDone(frame[t])
    /\ LET f == frame[t]
           transaction_bytes == f.transactions[f.next]
           transaction == Read(transaction_bytes)
       IN IF ~ReadOk(transaction_bytes)
          THEN /\ frame' = [frame EXCEPT ![t] =
                    [f EXCEPT !.pc = "done", !.result = Err]]
               /\ mutex' = {}
               /\ UNCHANGED memory_pool
          ELSE \E failed \in BOOLEAN :
                 /\ memory_pool' =
                       IF failed THEN memory_pool
                       ELSE Insert(memory_pool, Entry(transaction_bytes, transaction))[1]
                 /\ frame' = [frame EXCEPT ![t] =
                       [f EXCEPT !.next = @ + 1, !.ops = Append(@, "insert"),
                                 !.failures = IF failed THEN @ \cup {"insert"} ELSE @,
                                 !.lost = IF failed
                                          THEN @ \cup {TransactionId(transaction)}
                                          ELSE @]]
                 /\ UNCHANGED mutex
    /\ UNCHANGED <<ledger, local_address, is_bootnode, peer_pool, network, rwlock>>

\* ReceivedMemoryPoolCleanse with cleanse(..)? in the place of the
\* unwrap_or_else of line 178: a failure of cleanse returns the error.
ReceivedMemoryPoolCleanseOrFail(t) ==
    /\ frame[t].handler = "received_memory_pool"
    /\ frame[t].pc = "loop"
    /\ BatchDone(frame[t])
    /\ \E failed \in BOOLEAN :
         IF failed
         THEN /\ frame' = [frame EXCEPT ![t] =
                    [@ EXCEPT !.pc = "done", !.result = Err,
                              !.ops = Append(@, "cleanse"),
                              !.failures = @ \cup {"cleanse"}]]
              /\ mutex' = {}
              /\ UNCHANGED memory_pool
         ELSE /\ memory_pool' = Cleanse(memory_pool, ledger)
              /\ frame' = [frame EXCEPT ![t] =
                    [@ EXCEPT !.pc = "store", !.ops = Append(@, "cleanse"),
                              !.removed = DOMAIN memory_pool \ DOMAIN memory_pool']]
              /\ UNCHANGED mutex
    /\ UNCHANGED <<ledger, local_address, is_bootnode, peer_pool, network, rwlock>>

\* Lines 176-178: cleanse against storage.read(), a failure only logged.
ReceivedMemoryPoolCleanse(t) ==
    /\ frame[t].handler = "received_memory_pool"
    /\ frame[t].pc = "loop"
    /\ BatchDone(frame[t])
    /\ \E failed \in BOOLEAN :
         /\ memory_pool' = IF failed THEN memory_pool ELSE Cleanse(memory_pool, ledger)
         /\ frame' = [frame EXCEPT ![t] =
               [@ EXCEPT !.pc = "store", !.ops = Append(@, "cleanse"),
                         !.failures = IF failed THEN @ \cup {"cleanse"} ELSE @,
                         !.removed = DOMAIN memory_pool \ DOMAIN memory_pool']]
    /\ UNCHANGED <<mutex, ledger, local_address, is_bootnode, peer_pool, network, rwlock>>

\* Lines 180-182: store, a failure only logged.
ReceivedMemoryPoolStore(t) ==
    /\ frame[t].handler = "received_memory_pool"
    /\ frame[t].pc = "store"
    /\ \E failed \in BOOLEAN :
         frame' = [frame EXCEPT ![t] =
            [@ EXCEPT !.pc = "return", !.ops = Append(@, "store"),
                      !.failures = IF failed THEN @ \cup {"store"} ELSE @]]
    /\ UNCHANGED <<memory_pool, mutex, ledger, local_address, is_bootnode, peer_pool, network, rwlock>>

\* ReceivedMemoryPoolReturn that relays the batch to every address, as
\* received_transaction does for a transaction it admits.
ReceivedMemoryPoolReturnAndRelay(t) ==
    /\ frame[t].handler = "received_memory_pool"
    /\ frame[t].pc = "return"
    /\ mutex' = {}
    /\ frame' = [frame EXCEPT ![t] =
          [@ EXCEPT !.pc = "done", !.result = "Ok", !.pool0 = <<>>,
                    !.lost = {}, !.removed = {},
                    !.sent = SetToBag(
                       {Message(address, Transaction(frame[t].transactions[i])) :
                          address \in Addr, i \in 1..Len(frame[t].transactions)})]]
    /\ UNCHANGED <<memory_pool, ledger, local_address, is_bootnode, peer_pool, network, rwlock>>

\* Lines 184-185: Ok(()), the lock guard dropped.
ReceivedMemoryPoolReturn(t) ==
    /\ frame[t].handler = "received_memory_pool"
    /\ frame[t].pc = "return"
    /\ mutex' = {}
    /\ frame' = [frame EXCEPT ![t] =
          [@ EXCEPT !.pc = "done", !.result = "Ok", !.pool0 = <<>>,
                    !.lost = {}, !.removed = {}]]
    /\ UNCHANGED <<memory_pool, ledger, local_address, is_bootnode, peer_pool, network, rwlock>>

\* The caller has taken the Result of the call of task t.
Returned(t) ==
    /\ frame[t].pc = "done"
    /\ frame' = [frame EXCEPT ![t] = Idle]
    /\ UNCHANGED <<memory_pool, mutex, ledger, local_address, is_bootnode, peer_pool, network, rwlock>>

\* ------------------------------------------------------------ environment
\* A block is committed to storage: the transaction id stops verifying.
LedgerChange(id) ==
    /\ id \notin ledger
    /\ ledger' = ledger \cup {id}
    /\ UNCHANGED <<memory_pool, mutex, local_address, frame, is_bootnode, peer_pool, network, rwlock>>

\* The node learns its local address.
SetLocalAddress(address) ==
    /\ local_address = {}
    /\ local_address' = {address}
    /\ UNCHANGED <<memory_pool, mutex, ledger, frame, is_bootnode, peer_pool, network, rwlock>>

\* update's argument: None or Some(address).
SyncNodes == {{}} \cup {{address} : address \in Addr}

\* The dispatcher runs one handler call at a time, on this task.
Serial == {1}

Next ==
    \/ \E t \in Serial, sync_node \in SyncNodes : Update(t, sync_node)
    \/ \E t \in Serial, source \in Addr, transaction \in RawTransactions,
          connected_peers \in SUBSET Addr :
            ReceivedTransactionVerify(t, source, transaction, connected_peers)
    \/ \E t \in Serial : ReceivedTransactionInsert(t)
    \/ \E t \in Serial, remote_address \in Addr :
            ReceivedGetMemoryPoolSnapshot(t, remote_address)
    \/ \E t \in Serial : ReceivedGetMemoryPoolSend(t)
    \/ \E t \in Serial, transactions \in Batches :
            ReceivedMemoryPoolLock(t, transactions) /\ UNCHANGED network
    \/ \E t \in Serial : ReceivedMemoryPoolInsert(t)
    \/ \E t \in Serial : ReceivedMemoryPoolCleanse(t)
    \/ \E t \in Serial : ReceivedMemoryPoolStore(t)
    \/ \E t \in Serial : ReceivedMemoryPoolReturn(t)
    \/ \E t \in Serial : Returned(t)
    \/ \E id \in TxId : LedgerChange(id)
    \/ \E address \in Addr : SetLocalAddress(address)

\* Handler calls one after another, each interleaved with the environment.
Spec == Init /\ [][Next]_vars

\* NumTasks calls of received_transaction, each made once, from any sources
\* and in any interleaving, every address being a connected peer.
ConcurrentNext ==
    \/ \E t \in Tasks, source \in Addr, transaction \in RawTransactions :
            ReceivedTransactionVerify(t, source, transaction, Addr)
    \/ \E t \in Tasks : ReceivedTransactionInsert(t)
    \/ \E id \in TxId : LedgerChange(id)
    \/ \E address \in Addr : SetLocalAddress(address)

ConcurrentSpec == Init /\ [][ConcurrentNext]_vars

\* ------------------------------------------------------- two nodes in sync
\* Node A is this node; node B is the peer, which runs the same handlers
\* over its own pool.
NodeA == 1
NodeB == NumAddr

\* The task of node A that calls update, and the one that runs the handler
\* of an inbound message.
Driver == 1
Inbound == NumTasks

\* The pools node B may hold: not empty, no longer than a batch, every entry
\* made of a transaction and the length of its encoding.
PeerPools ==
    {[id \in {TransactionId(tx) : tx \in txs} |->
          Entry(ToBytes(CHOOSE tx \in txs : TransactionId(tx) = id),
                CHOOSE tx \in txs : TransactionId(tx) = id)] :
        txs \in {S \in SUBSET Tx : Cardinality(S) \in 1..MaxBatch}}

\* The list of a MemoryPool message as the bag of its elements.
BagOfSeq(seq) ==
    [b \in {seq[i] : i \in 1..Len(seq)} |->
        Cardinality({i \in 1..Len(seq) : seq[i] = b})]

SyncInit ==
    /\ memory_pool = <<>>
    /\ mutex = {}
    /\ ledger = {}
    /\ local_address = {}
    /\ frame = [t \in Tasks |-> Idle]
    /\ is_bootnode = FALSE
    /\ peer_pool \in PeerPools
    /\ network = {}
    /\ rwlock = [readers |-> {}, writer |-> "none"]

\* Lines 50-51 and 146-149, outbound.send_request(message): the outbound
\* handler takes the messages of the call of task t, which has returned.
SendRequest(t) ==
    /\ frame[t].pc = "done"
    /\ network' = network \cup BagToSet(frame[t].sent)
    /\ frame' = [frame EXCEPT ![t] = Idle]
    /\ UNCHANGED <<memory_pool, mutex, ledger, local_address, is_bootnode, peer_pool, rwlock>>

\* Lines 129-153 at node B: a GetMemoryPool message of node A is delivered,
\* B runs received_get_memory_pool(A) over its pool, every entry of which
\* encodes, and its outbound handler takes the answer.
PeerReceivedGetMemoryPool ==
    /\ Message(NodeB, GetMemoryPool) \in network
    /\ network' = (network \ {Message(NodeB, GetMemoryPool)})
                     \cup BagToSet(PoolResponse(NodeA, EncodeAll(peer_pool, {})))
    /\ UNCHANGED <<memory_pool, mutex, ledger, local_address, frame, is_bootnode, peer_pool, rwlock>>

\* A MemoryPool message for node A is delivered and dispatched: task t runs
\* received_memory_pool over its list, in the order B's pool was iterated.
DispatchMemoryPool(t) ==
    \E message \in network, transactions \in Batches :
        /\ message.dst = NodeA
        /\ message.payload.type = "MemoryPool"
        /\ BagOfSeq(transactions) = message.payload.txs
        /\ network' = network \ {message}
        /\ ReceivedMemoryPoolLock(t, transactions)

\* The steps of the call of received_memory_pool of task t.
ReceivedMemoryPoolStep(t) ==
    \/ ReceivedMemoryPoolInsert(t)
    \/ ReceivedMemoryPoolCleanse(t)
    \/ ReceivedMemoryPoolStore(t)
    \/ ReceivedMemoryPoolReturn(t)

SyncNext ==
    \/ Update(Driver, {NodeB})
    \/ SendRequest(Driver)
    \/ PeerReceivedGetMemoryPool
    \/ DispatchMemoryPool(Inbound)
    \/ ReceivedMemoryPoolStep(Inbound)
    \/ Returned(Inbound)
    \/ \E id \in TxId \ DOMAIN peer_pool : LedgerChange(id)

\* Node A calls update(Some(B)) at will; the ledger of A changes without
\* making an entry of B's pool invalid; a message enqueued is delivered and
\* dispatched in the end, and a handler call that can take a step takes it.
SyncSpec ==
    /\ SyncInit
    /\ [][SyncNext]_vars
    /\ WF_vars(SendRequest(Driver))
    /\ WF_vars(PeerReceivedGetMemoryPool)
    /\ WF_vars(DispatchMemoryPool(Inbound))
    /\ WF_vars(ReceivedMemoryPoolStep(Inbound))
    /\ WF_vars(Returned(Inbound))

\* ------------------------------------------- a batch among other handlers
\* The tasks that run the other inbound handlers while task Inbound runs
\* received_memory_pool.
Others == Tasks \ {Inbound}

\* Calls of received_memory_pool on one task, interleaved with calls of
\* received_transaction and received_get_memory_pool, from peer B, on the
\* other tasks.
IngestNext ==
    \/ \E transactions \in Batches :
            ReceivedMemoryPoolLock(Inbound, transactions) /\ UNCHANGED network
    \/ ReceivedMemoryPoolStep(Inbound)
    \/ \E t \in Others, transaction \in RawTransactions :
            ReceivedTransactionVerify(t, NodeB, transaction, Addr)
    \/ \E t \in Others : ReceivedTransactionInsert(t)
    \/ \E t \in Others : ReceivedGetMemoryPoolSnapshot(t, NodeB)
    \/ \E t \in Others : ReceivedGetMemoryPoolSend(t)
    \/ \E t \in Tasks : Returned(t)

IngestSpec == Init /\ [][IngestNext]_vars

\* ------------------------------------------------- the locks of the handlers
\* A handler call as the lock operations it makes, in the order of the code:
\* "take" where a guard is made (memory_pool().lock(), storage.read()),
\* "drop" where the guard goes out of scope.
Take(lock) == <<"take", lock>>
Drop(lock) == <<"drop", lock>>

\* A storage.read() guard that lives for one statement.
StorageRead == <<Take("storage"), Drop("storage")>>

\* ReceivedTransactionLocks with the storage guard of line 114 made before
\* memory_pool().lock() and dropped after it.
ReceivedTransactionLocksStorageFirst(path) ==
    IF path = "undecodable" THEN <<>>
    ELSE IF path = "rejected" THEN StorageRead
    ELSE StorageRead \o <<Take("storage"), Take("pool"), Drop("pool"), Drop("storage")>>

\* received_transaction: no lock when the bytes do not decode (line 94); the
\* storage.read() of verify_transaction (line 99), dropped with the condition
\* of the if; then, for a transaction that goes on to the insert (line 114),
\* memory_pool().lock(), storage.read(), and both guards dropped at the end
\* of the statement, the later one first. propagate_transaction takes none.
ReceivedTransactionLocks(path) ==
    IF path = "undecodable" THEN <<>>
    ELSE IF path = "rejected" THEN StorageRead
    ELSE StorageRead \o <<Take("pool"), Take("storage"), Drop("storage"), Drop("pool")>>

\* received_get_memory_pool: the pool lock for the block of lines 131-142.
ReceivedGetMemoryPoolLocks == <<Take("pool"), Drop("pool")>>

RECURSIVE InsertLocks(_)
InsertLocks(n) == IF n = 0 THEN <<>> ELSE StorageRead \o InsertLocks(n - 1)

\* received_memory_pool: the pool lock of line 157, kept to the end of the
\* function; a storage.read() for each insert (line 166) made before the
\* call returns, for cleanse (line 177) and for store (line 181) when every
\* entry decoded, and none of the two when one did not (line 160).
ReceivedMemoryPoolLocks(inserts, decoded) ==
    <<Take("pool")>> \o InsertLocks(inserts)
        \o (IF decoded THEN StorageRead \o StorageRead ELSE <<>>)
        \o <<Drop("pool")>>

\* The handler calls, each way through each of them.
LockPrograms ==
    {[handler |-> "received_transaction", locks |-> ReceivedTransactionLocks(path),
      result |-> "Ok"] : path \in {"undecodable", "rejected", "admitted"}}
    \cup {[handler |-> "received_get_memory_pool", locks |-> ReceivedGetMemoryPoolLocks,
            result |-> "Ok"]}
    \cup {[handler |-> "received_memory_pool",
            locks |-> ReceivedMemoryPoolLocks(inserts, TRUE),
            result |-> "Ok"] : inserts \in 0..MaxBatch}
    \cup {[handler |-> "received_memory_pool",
            locks |-> ReceivedMemoryPoolLocks(inserts, FALSE),
            result |-> Err] : inserts \in 0..(MaxBatch - 1)}

\* Task t starts a handler call.
Call(t, program) ==
    /\ Free(t)
    /\ frame' = [frame EXCEPT ![t] =
          [Idle EXCEPT !.handler = program.handler, !.pc = "locks",
                       !.result = program.result, !.locks = program.locks]]
    /\ UNCHANGED <<memory_pool, mutex, ledger, local_address, is_bootnode, peer_pool, network, rwlock>>

\* The call of task t stands before the making of a guard of `lock`.
Waiting(t, lock) ==
    /\ frame[t].pc = "locks"
    /\ frame[t].locks # <<>>
    /\ Head(frame[t].locks) = Take(lock)

\* memory_pool().lock() returns once no task holds the mutex;
\* storage.read() returns once no writer holds or awaits the RwLock.
TakeLock(t) ==
    /\ \/ /\ Waiting(t, "pool")
          /\ mutex = {}
          /\ mutex' = {t}
          /\ UNCHANGED rwlock
       \/ /\ Waiting(t, "storage")
          /\ rwlock.writer = "none"
          /\ rwlock' = [rwlock EXCEPT !.readers = @ \cup {t}]
          /\ UNCHANGED mutex
    /\ frame' = [frame EXCEPT ![t].locks = Tail(@)]
    /\ UNCHANGED <<memory_pool, ledger, local_address, is_bootnode, peer_pool, network>>

\* A guard of the call of task t goes out of scope.
DropLock(t) ==
    /\ frame[t].pc = "locks"
    /\ frame[t].locks # <<>>
    /\ \/ /\ Head(frame[t].locks) = Drop("pool")
          /\ mutex' = mutex \ {t}
          /\ UNCHANGED rwlock
       \/ /\ Head(frame[t].locks) = Drop("storage")
          /\ rwlock' = [rwlock EXCEPT !.readers = @ \ {t}]
          /\ UNCHANGED mutex
    /\ frame' = [frame EXCEPT ![t].locks = Tail(@)]
    /\ UNCHANGED <<memory_pool, ledger, local_address, is_bootnode, peer_pool, network>>

\* The call of task t returns.
LockReturn(t) ==
    /\ frame[t].pc = "locks"
    /\ frame[t].locks = <<>>
    /\ frame' = [frame EXCEPT ![t].pc = "done"]
    /\ UNCHANGED <<memory_pool, mutex, ledger, local_address, is_bootnode, peer_pool, network, rwlock>>

\* Another component of the node calls storage.write(): it waits for the
\* read guards to be dropped, new readers waiting behind it, holds the lock
\* and drops it.
StorageWrite ==
    /\ \/ rwlock.writer = "none" /\ rwlock' = [rwlock EXCEPT !.writer = "waiting"]
       \/ /\ rwlock.writer = "waiting"
          /\ rwlock.readers = {}
          /\ rwlock' = [rwlock EXCEPT !.writer = "held"]
       \/ rwlock.writer = "held" /\ rwlock' = [rwlock EXCEPT !.writer = "none"]
    /\ UNCHANGED <<memory_pool, mutex, ledger, local_address, frame, is_bootnode, peer_pool, network>>

LockNext ==
    \/ \E t \in Tasks, program \in LockPrograms : Call(t, program)
    \/ \E t \in Tasks : TakeLock(t)
    \/ \E t \in Tasks : DropLock(t)
    \/ \E t \in Tasks : LockReturn(t)
    \/ StorageWrite

\* NumTasks handler calls, each made once, in any interleaving with each
\* other and with a writer of storage.
LockSpec == Init /\ [][LockNext]_vars

\* ================================================================ claims
ReceivedTransaction(t) == frame[t].handler = "received_transaction"
ReceivedGetMemoryPool(t) == frame[t].handler = "received_get_memory_pool"
ReceivedMemoryPool(t) == frame[t].handler = "received_memory_pool"

\* The call of task t returned after propagate_transaction ran to its end.
Propagated(t) ==
    /\ ReceivedTransaction(t)
    /\ frame[t].pc = "done"
    /\ frame[t].insertion = "Some"
    /\ frame[t].result = "Ok"

\* C1: with the local address set, propagate_transaction(bytes, sender,
\* peers) sends one Transaction(bytes) message to every key of peers other
\* than the sender and the local address, and no other message.
PropagationSkipsSenderAndSelf ==
    \A t \in Tasks :
        Propagated(t) =>
            LET f == frame[t]
            IN /\ local_address # {}
               /\ \A m \in BagToSet(f.sent) :
                     m.dst \in Addr /\ m.payload = Transaction(f.transaction)
               /\ \A a \in Addr :
                     CopiesIn(Message(a, Transaction(f.transaction)), f.sent) =
                        IF /\ a \in f.connected_peers
                           /\ a # f.source
                           /\ a \notin local_address
                        THEN 1 ELSE 0

\* C1 witness: sender and local address are both connected peers, differ,
\* and some other peer was sent the transaction.
PropagationWitness ==
    \E t \in Tasks :
        /\ Propagated(t)
        /\ frame[t].source \in frame[t].connected_peers
        /\ local_address \subseteq frame[t].connected_peers
        /\ frame[t].source \notin local_address
        /\ frame[t].sent # EmptyBag

\* The calls of received_transaction whose bytes decode to the identity `id`.
Carrying(id) ==
    {t \in Tasks :
        /\ ReceivedTransaction(t)
        /\ ReadOk(frame[t].transaction)
        /\ TransactionId(Read(frame[t].transaction)) = id}

\* Those of them that have returned with an answer Ok(_) from the insert.
Answered(id) ==
    {t \in Carrying(id) :
        frame[t].pc = "done" /\ frame[t].insertion \in {"Some", None}}

\* The call of task t got as far as calling propagate_transaction.
CalledPropagate(t) == frame[t].sent # EmptyBag \/ frame[t].result = "Panic"

LeavesPool(t) == frame'[t] # frame[t] => memory_pool' = memory_pool

\* C3: when verify_transaction answers Ok(false), received_transaction
\* returns Ok(()) without calling insert, without sending anything and
\* without changing the pool.
InvalidTransactionDropped ==
    /\ [](\A t \in Tasks :
            (ReceivedTransaction(t) /\ frame[t].verified = "false") =>
                /\ frame[t].pc = "done"
                /\ frame[t].result = "Ok"
                /\ frame[t].insertion = NotYet
                /\ frame[t].sent = EmptyBag)
    /\ [][\A t \in Tasks :
            (ReceivedTransaction(t)' /\ frame'[t].verified = "false") =>
                LeavesPool(t)]_vars

\* C3 witness: a call returned after the verifier answered Ok(false).
InvalidTransactionWitness ==
    \E t \in Tasks :
        /\ ReceivedTransaction(t)
        /\ frame[t].verified = "false"
        /\ frame[t].pc = "done"

\* The call of task t decoded a transaction of negative value balance.
Coinbase(t) ==
    /\ ReceivedTransaction(t)
    /\ ReadOk(frame[t].transaction)
    /\ Read(frame[t].transaction).value_balance < 0

\* C4: received_transaction never calls insert for a decoded transaction of
\* negative value balance, sends nothing for it and leaves the pool as it
\* is, whether the verifier answers Ok(true), Ok(false) or an error.
CoinbaseNeverAdmitted ==
    /\ [](\A t \in Tasks :
            Coinbase(t) =>
                /\ frame[t].pc = "done"
                /\ frame[t].verified \in {"true", "false", Err}
                /\ frame[t].insertion = NotYet
                /\ frame[t].sent = EmptyBag)
    /\ [][\A t \in Tasks : Coinbase(t)' => LeavesPool(t)]_vars

\* C4 witness: the verifier answered Ok(true) for a coinbase transaction.
CoinbaseWitness ==
    \E t \in Tasks : Coinbase(t) /\ frame[t].verified = "true"

\* C5: whatever handlers peers drive, the pool holds no transaction of
\* negative value balance once they have returned.
NoCoinbaseInPool ==
    mutex = {} =>
        \A id \in DOMAIN memory_pool :
            memory_pool[id].transaction.value_balance >= 0

\* C6: every entry a step adds to the pool passes consensus verification
\* against the ledger state of that step.
InsertedOnlyVerified ==
    [][\A id \in DOMAIN memory_pool' \ DOMAIN memory_pool :
          VerifyTransaction(memory_pool'[id].transaction, ledger)]_vars

\* C7: a call of received_memory_pool that has returned, with Ok or with the
\* error of an entry that does not decode, has called cleanse and then store.
ReturnedBatchCleansedAndStored ==
    \A t \in Tasks :
        (ReceivedMemoryPool(t) /\ frame[t].pc = "done") =>
            /\ Len(frame[t].ops) >= 2
            /\ SubSeq(frame[t].ops, Len(frame[t].ops) - 1, Len(frame[t].ops))
                    = <<"cleanse", "store">>

\* Every entry of the batch of task t decodes.
Decodable(t) ==
    \A i \in 1..Len(frame[t].transactions) : ReadOk(frame[t].transactions[i])

\* The calls on the pool that a decodable batch of n entries is to make.
RECURSIVE BatchOps(_)
BatchOps(n) ==
    IF n = 0 THEN <<"cleanse", "store">> ELSE <<"insert">> \o BatchOps(n - 1)

IsPrefix(s, r) == Len(s) <= Len(r) /\ s = SubSeq(r, 1, Len(s))

\* C8: for a batch of N entries that all decode, received_memory_pool calls
\* insert N times, then cleanse once, then store once, and nothing else on
\* the pool: all of it by the time it returns, a prefix of it before.
BatchCleansedAndStoredOnce ==
    \A t \in Tasks :
        (ReceivedMemoryPool(t) /\ Decodable(t)) =>
            LET expected == BatchOps(Len(frame[t].transactions))
            IN /\ IsPrefix(frame[t].ops, expected)
               /\ frame[t].pc \in {"return", "done"} => frame[t].ops = expected
               /\ frame[t].pc = "done" => frame[t].result = "Ok"

\* C8 witness: a batch of two entries went through insert, insert, cleanse
\* and store.
BatchOnceWitness ==
    \E t \in Tasks :
        /\ ReceivedMemoryPool(t)
        /\ Decodable(t)
        /\ Len(frame[t].transactions) = 2
        /\ frame[t].pc = "done"

\* The identities of the batch of task t.
BatchIds(t) ==
    {TransactionId(Read(frame[t].transactions[i])) :
        i \in 1..Len(frame[t].transactions)}

\* The call of task t is about to return Ok(()) for a batch of well-formed
\* transactions of distinct identities, none of them in the pool beforehand.
FreshBatchReturns(t) ==
    /\ ReceivedMemoryPool(t)
    /\ frame[t].pc = "return"
    /\ Decodable(t)
    /\ Cardinality(BatchIds(t)) = Len(frame[t].transactions)
    /\ BatchIds(t) \cap DOMAIN frame[t].pool0 = {}

\* C9 as claimed: such a call, when none of its inserts failed, leaves in
\* the pool its previous entries and the identities of the batch, all of
\* them.
FreshBatchAllAdmitted ==
    \A t \in Tasks :
        (FreshBatchReturns(t) /\ frame[t].lost = {}) =>
            DOMAIN memory_pool = DOMAIN frame[t].pool0 \cup BatchIds(t)

\* C9 amended: such a call leaves in the pool its previous entries and the
\* identities of the batch, less those whose insert failed and those that
\* cleanse removed, which the ledger has made invalid; the entries are the
\* previous ones and those built from the bytes of the batch.
FreshBatchAdmitted ==
    \A t \in Tasks :
        FreshBatchReturns(t) =>
            LET f == frame[t]
            IN /\ DOMAIN memory_pool =
                    (DOMAIN f.pool0 \cup BatchIds(t)) \ (f.lost \cup f.removed)
               /\ f.lost \subseteq BatchIds(t)
               /\ f.removed \subseteq ledger
               /\ \A id \in DOMAIN memory_pool \cap DOMAIN f.pool0 :
                     memory_pool[id] = f.pool0[id]
               /\ \A i \in 1..Len(f.transactions) :
                     LET id == TransactionId(Read(f.transactions[i]))
                     IN id \in DOMAIN memory_pool =>
                           memory_pool[id] =
                              Entry(f.transactions[i], Read(f.transactions[i]))

\* C9 witness: a fresh batch of two entries is about to return on top of a
\* pool that was not empty, and cleanse removed something.
FreshBatchWitness ==
    \E t \in Tasks :
        /\ FreshBatchReturns(t)
        /\ Len(frame[t].transactions) = 2
        /\ frame[t].pool0 # <<>>
        /\ frame[t].removed # {}

\* C10: received_get_memory_pool returns Ok(()) having sent nothing when no
\* entry of the pool was encoded, and otherwise one MemoryPool message, to
\* the requester, listing once the encoding of every entry of the pool that
\* encodes; the pool is as it was.
PoolRequestAnswered ==
    /\ [](\A t \in Tasks :
            ReceivedGetMemoryPool(t) =>
                LET f == frame[t]
                    encoded == DOMAIN memory_pool \ f.skipped
                IN /\ f.skipped \subseteq DOMAIN memory_pool
                   /\ BagToSet(f.txs) =
                         {ToBytes(memory_pool[id].transaction) : id \in encoded}
                   /\ BagCardinality(f.txs) = Cardinality(encoded)
                   /\ f.pc = "send" => f.sent = EmptyBag
                   /\ f.pc = "done" =>
                         /\ f.result = "Ok"
                         /\ encoded = {} => f.sent = EmptyBag
                         /\ encoded # {} =>
                               f.sent = SetToBag(
                                  {Message(f.remote_address, MemoryPool(f.txs))}))
    /\ [][\A t \in Tasks : ReceivedGetMemoryPool(t)' => LeavesPool(t)]_vars

\* C10 witness: the pool held two entries, one of which did not encode, and
\* the requester was sent the other.
PoolRequestWitness ==
    \E t \in Tasks :
        /\ ReceivedGetMemoryPool(t)
        /\ frame[t].pc = "done"
        /\ Cardinality(DOMAIN memory_pool) = 2
        /\ Cardinality(frame[t].skipped) = 1
        /\ frame[t].sent # EmptyBag

\* The call of task t is one of update.
Updating(t) == frame[t].handler = "update"

\* C11: update(sync_node) sends one GetMemoryPool message, to sync_node, when
\* the node is no bootnode and sync_node is Some; it sends nothing on a
\* bootnode, whatever sync_node is, and nothing when sync_node is None; it
\* returns Ok(()) in every case and leaves the pool as it is.
UpdateSendsOneRequest ==
    /\ [](\A t \in Tasks :
            Updating(t) =>
                LET f == frame[t]
                IN /\ f.pc = "done"
                   /\ f.result = "Ok"
                   /\ (~is_bootnode /\ f.sync_node # {}) =>
                         /\ BagCardinality(f.sent) = 1
                         /\ \A address \in f.sync_node :
                               CopiesIn(Message(address, GetMemoryPool), f.sent) = 1
                   /\ (is_bootnode \/ f.sync_node = {}) => f.sent = EmptyBag)
    /\ [][\A t \in Tasks : Updating(t)' => LeavesPool(t)]_vars

\* C11 witness: on a bootnode, update(Some(address)) returned over a pool
\* that is not empty.
UpdateWitness ==
    \E t \in Tasks :
        /\ Updating(t)
        /\ is_bootnode
        /\ frame[t].sync_node # {}
        /\ memory_pool # <<>>

\* The call of task t is received_transaction with bytes that do not decode.
Undecodable(t) == ReceivedTransaction(t) /\ ~ReadOk(frame[t].transaction)

\* C12: when the bytes given to received_transaction do not decode, the
\* handler returns Ok(()) without consulting the verifier, without calling
\* insert, without sending anything and without changing the pool.
UndecodableTransactionIgnored ==
    /\ [](\A t \in Tasks :
            Undecodable(t) =>
                /\ frame[t].pc = "done"
                /\ frame[t].result = "Ok"
                /\ frame[t].verified = NotYet
                /\ frame[t].insertion = NotYet
                /\ frame[t].sent = EmptyBag)
    /\ [][\A t \in Tasks : Undecodable(t)' => LeavesPool(t)]_vars

\* C12 witness: the call returned for bytes that are not empty and do not
\* decode, from a connected peer, over a pool that is not empty.
UndecodableWitness ==
    \E t \in Tasks :
        /\ Undecodable(t)
        /\ frame[t].transaction # <<>>
        /\ frame[t].connected_peers # {}
        /\ memory_pool # <<>>

\* C13: no call of received_transaction, received_get_memory_pool or
\* received_memory_pool panics, whatever the input and the state of the
\* environment, the local address being unset included.
InboundHandlersNeverPanic ==
    \A t \in Tasks :
        (ReceivedTransaction(t) \/ ReceivedGetMemoryPool(t) \/ ReceivedMemoryPool(t)) =>
            frame[t].result # "Panic"

\* The call of task t is received_memory_pool, returned with an error.
BatchFailed(t) ==
    ReceivedMemoryPool(t) /\ frame[t].pc = "done" /\ frame[t].result = Err

\* n times "insert".
RECURSIVE Inserts(_)
Inserts(n) == IF n = 0 THEN <<>> ELSE <<"insert">> \o Inserts(n - 1)

\* C14: when received_memory_pool has returned an error, the entry at some
\* position k of the batch does not decode and those before it do; the
\* calls made on the pool are the k - 1 inserts of the entries before k,
\* nothing of an entry after k and no cleanse or store; and the pool holds
\* what it held before the call together with entries before k, all of them
\* but those for which an insert failed: it is not rolled back.
BatchStopsAtUndecodable ==
    \A t \in Tasks :
        BatchFailed(t) =>
            LET f == frame[t]
                k == f.next
                before == {TransactionId(Read(f.transactions[i])) : i \in 1..(k - 1)}
            IN /\ k \in 1..Len(f.transactions)
               /\ ~ReadOk(f.transactions[k])
               /\ \A i \in 1..(k - 1) : ReadOk(f.transactions[i])
               /\ f.ops = Inserts(k - 1)
               /\ mutex = {}
               /\ DOMAIN f.pool0 \cup (before \ f.lost) \subseteq DOMAIN memory_pool
               /\ DOMAIN memory_pool \subseteq DOMAIN f.pool0 \cup before
               /\ \A id \in DOMAIN f.pool0 : memory_pool[id] = f.pool0[id]

\* C14 witness: the second of two entries did not decode and the first,
\* which was not in the pool before, is in it after the error return.
BatchStopsWitness ==
    \E t \in Tasks :
        /\ BatchFailed(t)
        /\ frame[t].next = 2
        /\ DOMAIN memory_pool # DOMAIN frame[t].pool0

\* C15: in a call of received_memory_pool whose batch decodes entirely, no
\* failure of an insert, of cleanse or of store ends the call or reaches the
\* caller: after a failed insert the loop goes on to the entries left, after
\* a failed cleanse store is called, and the call returns Ok(()) having made
\* its N inserts, its cleanse and its store.
BatchFailuresSwallowed ==
    \A t \in Tasks :
        (ReceivedMemoryPool(t) /\ Decodable(t) /\ frame[t].failures # {}) =>
            LET f == frame[t]
                N == Len(f.transactions)
            IN /\ f.result # Err
               /\ f.pc \in {"loop", "store", "return", "done"}
               /\ f.pc = "loop" => f.ops = Inserts(f.next - 1) /\ f.next <= N + 1
               /\ f.pc = "store" => f.ops = Inserts(N) \o <<"cleanse">>
               /\ f.pc \in {"return", "done"} => f.ops = BatchOps(N)
               /\ f.pc = "done" => f.result = "Ok"

\* C15 witness: a batch of two entries returned Ok(()) after an insert,
\* cleanse and store all failed.
BatchFailuresWitness ==
    \E t \in Tasks :
        /\ ReceivedMemoryPool(t)
        /\ Decodable(t)
        /\ Len(frame[t].transactions) = 2
        /\ frame[t].failures = {"insert", "cleanse", "store"}
        /\ frame[t].pc = "done"
        /\ frame[t].result = "Ok"

\* C16: a call of received_memory_pool sends no message, at any point and
\* for any batch.
BatchNeverPropagated ==
    \A t \in Tasks : ReceivedMemoryPool(t) => frame[t].sent = EmptyBag

\* C16 witness: a call returned Ok(()) for a batch of two entries, both of
\* them in the pool afterwards and none of its calls on the pool failed.
BatchNeverPropagatedWitness ==
    \E t \in Tasks :
        /\ ReceivedMemoryPool(t)
        /\ frame[t].pc = "done"
        /\ frame[t].result = "Ok"
        /\ frame[t].failures = {}
        /\ Cardinality(BatchIds(t)) = 2
        /\ BatchIds(t) \subseteq DOMAIN memory_pool

\* The call of task t has returned, having carried a transaction of
\* non-negative value balance that the verifier found valid and for which
\* insert did not fail.
AdmissibleDone(t) ==
    /\ ReceivedTransaction(t)
    /\ frame[t].pc = "done"
    /\ frame[t].verified = "true"
    /\ frame[t].insertion \in {"Some", None}

SyncRequested ==
    Updating(Driver) /\ frame[Driver].sent # EmptyBag

\* Every identity of B's pool is in A's pool.
SyncConverged == DOMAIN peer_pool \subseteq DOMAIN memory_pool

\* An insert of the batch failed at node A.
SyncInsertFailed ==
    ReceivedMemoryPool(Inbound) /\ "insert" \in frame[Inbound].failures

CanStep(t) ==
    /\ frame[t].pc = "locks"
    /\ \/ frame[t].locks = <<>>
       \/ frame[t].locks # <<>> /\ Head(frame[t].locks)[1] = "drop"
       \/ Waiting(t, "pool") /\ mutex = {}
       \/ Waiting(t, "storage") /\ rwlock.writer = "none"

\* The writer holds the lock or can take it.
WriterCanStep ==
    \/ rwlock.writer = "held"
    \/ rwlock.writer = "waiting" /\ rwlock.readers = {}

\* C19: in no interleaving of handler calls with each other and with a
\* writer of storage are the calls in flight all stuck on the pool mutex and
\* the storage lock; no call waits for the pool mutex with a storage read
\* guard in hand; a call that holds both took the pool mutex first, so the
\* read guard is the next it drops; and a call that has returned, the early
\* error return of received_memory_pool included, holds neither.
NoLockDeadlock ==
    /\ (\E t \in Tasks : frame[t].pc = "locks") =>
            (\E t \in Tasks : CanStep(t)) \/ WriterCanStep
    /\ \A t \in Tasks :
          /\ ~(t \in rwlock.readers /\ Waiting(t, "pool"))
          /\ (t \in mutex /\ t \in rwlock.readers) =>
                Head(frame[t].locks) = Drop("storage")
          /\ frame[t].pc = "done" => t \notin mutex /\ t \notin rwlock.readers

\* C19 witness: received_memory_pool has returned its error in one task
\* while another holds the pool mutex and a storage read guard, a writer
\* waiting for storage.
LockWitness ==
    \E t, u \in Tasks :
        /\ frame[t].handler = "received_memory_pool"
        /\ frame[t].pc = "done"
        /\ frame[t].result = Err
        /\ u \in mutex
        /\ u \in rwlock.readers
        /\ rwlock.writer = "waiting"

\* The call of received_memory_pool of task u stands between its taking of
\* the pool lock and its return.
Ingesting(u) ==
    ReceivedMemoryPool(u) /\ frame[u].pc \in {"loop", "store", "return"}

\* The step is the insert of a call of received_transaction of task t.
InsertStep(t) ==
    ReceivedTransaction(t) /\ frame[t].pc = "insert" /\ frame'[t].pc # "insert"

\* The step is the snapshot of a call of received_get_memory_pool of task t.
SnapshotStep(t) ==
    frame[t].pc # "send" /\ ReceivedGetMemoryPool(t)' /\ frame'[t].pc = "send"

\* C20: from the taking of the pool lock by received_memory_pool, before its
\* first insert, to its return after store, the call holds the pool mutex;
\* meanwhile no other task inserts through received_transaction or takes the
\* snapshot of received_get_memory_pool, and the pool changes by the steps
\* of that call alone.
IngestionAtomic ==
    /\ [](\A u \in Tasks : Ingesting(u) => mutex = {u})
    /\ [][\A u \in Tasks :
            Ingesting(u) =>
                /\ \A t \in Tasks \ {u} : ~InsertStep(t) /\ ~SnapshotStep(t)
                /\ memory_pool' # memory_pool => frame'[u] # frame[u]]_vars

\* C20 witness: between the two inserts of a batch, a call of
\* received_transaction in another task has verified its transaction, which
\* is not in the pool, and stands at its insert.
IngestionWitness ==
    \E u \in Tasks, t \in Tasks :
        /\ Ingesting(u)
        /\ frame[u].pc = "loop"
        /\ frame[u].next = 2
        /\ Len(frame[u].transactions) = 2
        /\ ReceivedTransaction(t)
        /\ frame[t].pc = "insert"
        /\ TransactionId(Read(frame[t].transaction)) \notin DOMAIN memory_pool

====
